---------------------------- MODULE Spec2Model ----------------------------
(***************************************************************************)
(* Discrete exterior calculus on a 2D staggered grid (panopaea, dec/grid.rs *)
(* and dec/manifold.rs): form containers, the Hodge operators, the exterior *)
(* derivatives and the Manifold2d facade; and the spatial-hash grid of the  *)
(* particle code (sph/grid.rs): BoundedGrid and its per-cell index ranges.  *)
(*                                                                          *)
(* Scalars: T is f32/f64 in the source.  Every value of the model is an     *)
(* integer small enough that the float arithmetic of the source is exact;   *)
(* 0-form inputs are multiples of 4, so that the divisions by two and four  *)
(* of Hodge0::apply are exact as well.                                      *)
(***************************************************************************)
EXTENDS Integers, Sequences, FiniteSets, TLC

VARIABLES
    dim,        \* Grid2d::dim(): <<h, w>>, the number of faces along y and x
    input,      \* the form the caller started from (never written afterwards)
    src,        \* the form the next operator reads (the last result)
    dst,        \* the container the caller prepared as the next output, or NoForm
    chain,      \* the facade calls made so far, in order
    freshness,  \* per call of chain: was its output container as new_simplex_k made it
    old,        \* the output container as it was before the last call
    arg,        \* the source form of the last call
    callee,     \* the trait method the last Hodge wrapper delegated to
    pc,         \* "running" | "unimplemented" (the call panicked); for the
                \* BoundedGrid: "new" | "returned" | "panicked"
    parOp,      \* element-wise execution: the operator being executed
    parPending, \* element-wise execution: the element writes not yet executed
    parOut,     \* element-wise execution: the output container so far
    grid,       \* the BoundedGrid: num_cells, cell_size, cell_ranges
    positions,  \* the particle positions of the last construct_ranges call
    stale       \* did the last construct_ranges call find a non-empty range
                \* stored for a cell that holds none of its positions

vars == <<dim, input, src, dst, chain, freshness, old, arg, callee, pc,
          parOp, parPending, parOut, grid, positions, stale>>

sphVars == <<grid, positions, stale>>

(***************************************************************************)
(* Bounds of the model.                                                     *)
(***************************************************************************)
MaxDim == 2

Grids == (1..MaxDim) \X (1..MaxDim)

\* Scalar values of the generated input forms (multiples of 4).
Vals == {4, -8}

\* First element of the prior content a caller leaves in an output container.
PriorBases == {100}

NoForm == [deg |-> -1, dim |-> <<0, 0>>, data |-> <<>>]

NoCall == <<-1, "none">>

NoGrid == [num_cells |-> <<0, 0>>, cell_size |-> 1, cell_ranges |-> <<>>]

(***************************************************************************)
(* Arrays and slices (ndarray).                                             *)
(***************************************************************************)
\* The index set of a 2D array of the given shape.
Dom2(shape) == (0..(shape[1] - 1)) \X (0..(shape[2] - 1))

\* A slice bound: a negative bound counts from the end of the axis.
Idx(len, i) == IF i < 0 THEN len + i ELSE i

\* The elements of the slice rows r0..r1-1, columns c0..c1-1, in the
\* row-major order in which Zip visits them.
Slice2(r0, r1, c0, c1) ==
    LET nr == IF r1 > r0 THEN r1 - r0 ELSE 0
        nc == IF c1 > c0 THEN c1 - c0 ELSE 0
    IN  [n \in 1..(nr * nc) |-> <<r0 + ((n - 1) \div nc), c0 + ((n - 1) % nc)>>]

\* Zip::from(out).and(..).apply(f): one write <<target, value>> per element,
\* values[n] the value f gives for the n-th elements of the zipped inputs
\* (the zipped arrays have one shape, or Zip panics).
ZipWrites(targets, values) == [n \in DOMAIN targets |-> <<targets[n], values[n]>>]

\* The writes of a call executed in the order given.
RECURSIVE ApplyWrites(_, _)
ApplyWrites(data, ws) ==
    IF ws = <<>> THEN data
    ELSE ApplyWrites([data EXCEPT ![ws[1][1]] = ws[1][2]], Tail(ws))

(***************************************************************************)
(* Sizing and construction (impl Manifold2d for Grid2d).                    *)
(***************************************************************************)
num_elem_0(self) == (self[1] + 1) * (self[2] + 1)

num_elem_1(self) == (self[1] + 1) * self[2] + self[1] * (self[2] + 1)

num_elem_2(self) == self[1] * self[2]

new_simplex_0(self) ==
    [deg |-> 0, dim |-> <<self[1] + 1, self[2] + 1>>,
     data |-> [p \in Dom2(<<self[1] + 1, self[2] + 1>>) |-> 0]]

new_simplex_1(self) ==
    [deg |-> 1, dim |-> self,
     data |-> [k \in 0..((self[1] + 1) * self[2] + self[1] * (self[2] + 1) - 1) |-> 0]]

new_simplex_2(self) ==
    [deg |-> 2, dim |-> <<self[1], self[2]>>,
     data |-> [p \in Dom2(<<self[1], self[2]>>) |-> 0]]

(***************************************************************************)
(* Staggered2d: one buffer, two views.                                      *)
(***************************************************************************)
\* Faulty variant: the offset of the horizontal block computed with the axes swapped.
size_0_swapped(d) == d[1] * (d[2] + 1)

\* size_0 of split / split_mut: the length of the vertical block.
size_0(d) == d[2] * (d[1] + 1)

\* The shapes of the two views.
VShape(d) == <<d[1] + 1, d[2]>>

HShape(d) == <<d[1], d[2] + 1>>

\* split_mut: the buffer offset behind each element of the two views
\* (from_shape_ptr: row-major from the view's base pointer).
split_mut(d) ==
    <<[p \in Dom2(VShape(d)) |-> 0 + (p[1] * VShape(d)[2] + p[2])],
      [p \in Dom2(HShape(d)) |-> size_0(d) + (p[1] * HShape(d)[2] + p[2])]>>

\* split: the two read-only views of a Staggered2d.
split(s) ==
    LET o == split_mut(s.dim)
    IN  <<[p \in DOMAIN o[1] |-> s.data[o[1][p]]],
          [p \in DOMAIN o[2] |-> s.data[o[2][p]]]>>


(***************************************************************************)
(* Scalar arithmetic of T.                                                  *)
(***************************************************************************)
\* primal / two, primal / four: exact on the multiples the inputs are drawn from.
Div(x, k) == x \div k

Mul(x, k) == x * k

\* The whole array, as Zip visits it.
Whole(shape) == Slice2(0, shape[1], 0, shape[2])

(***************************************************************************)
(* impl Hodge0 for Grid2d.  The corner indices come from self.dim(), the    *)
(* slices from the shape of the array; the statements run in source order.  *)
(***************************************************************************)
Hodge0_regions(self, shape) ==
    LET h == self[1]
        w == self[2]
        R == shape[1]
        C == shape[2]
    IN  [corners |-> << <<0, 0>>, <<0, w - 1>>, <<h - 1, 0>>, <<h - 1, w - 1>> >>,
         sides   |-> Slice2(0, Idx(R, 1), Idx(C, 1), Idx(C, -1))          \* s![..1, 1..-1]
                     \o Slice2(Idx(R, -1), R, Idx(C, 1), Idx(C, -1))      \* s![-1.., 1..-1]
                     \o Slice2(Idx(R, 1), Idx(R, -1), 0, Idx(C, 1))       \* s![1..-1, ..1]
                     \o Slice2(Idx(R, 1), Idx(R, -1), Idx(C, -1), C),     \* s![1..-1, -1..]
         inner   |-> Slice2(Idx(R, 1), Idx(R, -1), Idx(C, 1), Idx(C, -1))] \* s![1..-1, 1..-1]

Hodge0_apply_writes(self, dual, primal) ==
    LET g == Hodge0_regions(self, dual.dim)
    IN  ZipWrites(g.corners, [n \in DOMAIN g.corners |-> Div(primal.data[g.corners[n]], 4)])
        \o ZipWrites(g.sides, [n \in DOMAIN g.sides |-> Div(primal.data[g.sides[n]], 2)])
        \o ZipWrites(g.inner, [n \in DOMAIN g.inner |-> primal.data[g.inner[n]]])

Hodge0_apply(self, dual, primal) ==
    ApplyWrites(dual.data, Hodge0_apply_writes(self, dual, primal))

Hodge0_apply_inv_writes(self, primal, dual) ==
    LET g == Hodge0_regions(self, primal.dim)
    IN  ZipWrites(g.corners, [n \in DOMAIN g.corners |-> Mul(dual.data[g.corners[n]], 4)])
        \o ZipWrites(g.sides, [n \in DOMAIN g.sides |-> Mul(dual.data[g.sides[n]], 2)])
        \o ZipWrites(g.inner, [n \in DOMAIN g.inner |-> dual.data[g.inner[n]]])

Hodge0_apply_inv(self, primal, dual) ==
    ApplyWrites(primal.data, Hodge0_apply_inv_writes(self, primal, dual))

(***************************************************************************)
(* impl Hodge1 for Grid2d.                                                  *)
(***************************************************************************)
\* The buffer offsets of a whole view, in Zip order.
ViewTargets(offsets, shape) == [n \in DOMAIN Whole(shape) |-> offsets[Whole(shape)[n]]]

Hodge1_apply_writes(self, dual, primal) ==
    LET p == split(primal)
        d == split_mut(dual.dim)
        v == Whole(VShape(primal.dim))
        z == Whole(HShape(primal.dim))
    IN  ZipWrites(ViewTargets(d[1], VShape(dual.dim)), [n \in DOMAIN v |-> p[1][v[n]]])
        \o ZipWrites(ViewTargets(d[2], HShape(dual.dim)), [n \in DOMAIN z |-> -p[2][z[n]]])

\* Faulty variant: the inverse forgets the sign flip of the vertical block.
Hodge1_apply_inv_writes_nosign(self, primal, dual) ==
    LET d == split(dual)
        p == split_mut(primal.dim)
        v == Whole(VShape(dual.dim))
        z == Whole(HShape(dual.dim))
    IN  ZipWrites(ViewTargets(p[1], VShape(primal.dim)), [n \in DOMAIN v |-> d[1][v[n]]])
        \o ZipWrites(ViewTargets(p[2], HShape(primal.dim)), [n \in DOMAIN z |-> d[2][z[n]]])

Hodge1_apply_inv_writes(self, primal, dual) ==
    LET d == split(dual)
        p == split_mut(primal.dim)
        v == Whole(VShape(dual.dim))
        z == Whole(HShape(dual.dim))
    IN  ZipWrites(ViewTargets(p[1], VShape(primal.dim)), [n \in DOMAIN v |-> -d[1][v[n]]])
        \o ZipWrites(ViewTargets(p[2], HShape(primal.dim)), [n \in DOMAIN z |-> d[2][z[n]]])

Hodge1_apply(self, dual, primal) ==
    ApplyWrites(dual.data, Hodge1_apply_writes(self, dual, primal))

Hodge1_apply_inv(self, primal, dual) ==
    ApplyWrites(primal.data, Hodge1_apply_inv_writes(self, primal, dual))

(***************************************************************************)
(* impl Hodge2 for Grid2d: assign.                                          *)
(***************************************************************************)
Hodge2_apply_writes(self, dual, primal) ==
    ZipWrites(Whole(dual.dim),
              [n \in DOMAIN Whole(primal.dim) |-> primal.data[Whole(primal.dim)[n]]])

Hodge2_apply_inv_writes(self, primal, dual) ==
    ZipWrites(Whole(primal.dim),
              [n \in DOMAIN Whole(dual.dim) |-> dual.data[Whole(dual.dim)[n]]])

Hodge2_apply(self, dual, primal) ==
    ApplyWrites(dual.data, Hodge2_apply_writes(self, dual, primal))

Hodge2_apply_inv(self, primal, dual) ==
    ApplyWrites(primal.data, Hodge2_apply_inv_writes(self, primal, dual))


(***************************************************************************)
(* Exterior derivatives (impl Manifold2d for Grid2d).                       *)
(***************************************************************************)
\* Targets of a zip over a slice of a view: the buffer offsets, in Zip order.
SliceTargets(offsets, slice) == [n \in DOMAIN slice |-> offsets[slice[n]]]

\* Faulty variant: the second block takes the difference the other way round.
derivative_0_primal_writes_mixed(self, edges, vertices) ==
    LET o  == split_mut(edges.dim)
        R  == vertices.dim[1]
        C  == vertices.dim[2]
        a0 == Slice2(0, R, 0, Idx(C, -1))
        a1 == Slice2(0, R, Idx(C, 1), C)
        b0 == Slice2(0, Idx(R, -1), 0, C)
        b1 == Slice2(Idx(R, 1), R, 0, C)
    IN  ZipWrites(ViewTargets(o[1], VShape(edges.dim)),
                  [n \in DOMAIN a0 |-> vertices.data[a1[n]] - vertices.data[a0[n]]])
        \o ZipWrites(ViewTargets(o[2], HShape(edges.dim)),
                     [n \in DOMAIN b0 |-> vertices.data[b0[n]] - vertices.data[b1[n]]])

derivative_0_primal_writes(self, edges, vertices) ==
    LET o  == split_mut(edges.dim)
        R  == vertices.dim[1]
        C  == vertices.dim[2]
        a0 == Slice2(0, R, 0, Idx(C, -1))       \* s![.., ..-1]
        a1 == Slice2(0, R, Idx(C, 1), C)        \* s![.., 1..]
        b0 == Slice2(0, Idx(R, -1), 0, C)       \* s![..-1, ..]
        b1 == Slice2(Idx(R, 1), R, 0, C)        \* s![1.., ..]
    IN  ZipWrites(ViewTargets(o[1], VShape(edges.dim)),
                  [n \in DOMAIN a0 |-> vertices.data[a1[n]] - vertices.data[a0[n]]])
        \o ZipWrites(ViewTargets(o[2], HShape(edges.dim)),
                     [n \in DOMAIN b0 |-> vertices.data[b1[n]] - vertices.data[b0[n]]])

\* Faulty variant: the dual derivative also writes the outermost rows and columns
\* (with the value an absent outside face, taken as zero, would give).
derivative_0_dual_writes_full(self, edges, faces) ==
    LET o  == split_mut(edges.dim)
        F(p) == IF p \in DOMAIN faces.data THEN faces.data[p] ELSE 0
    IN  ZipWrites(ViewTargets(o[1], VShape(edges.dim)),
                  [n \in DOMAIN Whole(VShape(edges.dim)) |->
                      LET p == Whole(VShape(edges.dim))[n]
                      IN  -(F(p) - F(<<p[1] - 1, p[2]>>))])
        \o ZipWrites(ViewTargets(o[2], HShape(edges.dim)),
                     [n \in DOMAIN Whole(HShape(edges.dim)) |->
                         LET p == Whole(HShape(edges.dim))[n]
                         IN  F(<<p[1], p[2] - 1>>) - F(p)])

derivative_0_dual_writes(self, edges, faces) ==
    LET o  == split_mut(edges.dim)
        VR == VShape(edges.dim)[1]
        VC == VShape(edges.dim)[2]
        HR == HShape(edges.dim)[1]
        HC == HShape(edges.dim)[2]
        R  == faces.dim[1]
        C  == faces.dim[2]
        ev == Slice2(Idx(VR, 1), Idx(VR, -1), 0, VC)    \* edges.0 s![1..-1, ..]
        v0 == Slice2(0, Idx(R, -1), 0, C)               \* s![..-1, ..]
        v1 == Slice2(Idx(R, 1), R, 0, C)                \* s![1.., ..]
        eh == Slice2(0, HR, Idx(HC, 1), Idx(HC, -1))    \* edges.1 s![.., 1..-1]
        h0 == Slice2(0, R, 0, Idx(C, -1))               \* s![.., ..-1]
        h1 == Slice2(0, R, Idx(C, 1), C)                \* s![.., 1..]
    IN  ZipWrites(SliceTargets(o[1], ev),
                  [n \in DOMAIN v0 |-> -(faces.data[v1[n]] - faces.data[v0[n]])])
        \o ZipWrites(SliceTargets(o[2], eh),
                     [n \in DOMAIN h0 |-> faces.data[h0[n]] - faces.data[h1[n]]])

derivative_1_primal_writes(self, faces, edges) ==
    LET e  == split(edges)
        VR == VShape(edges.dim)[1]
        VC == VShape(edges.dim)[2]
        HR == HShape(edges.dim)[1]
        HC == HShape(edges.dim)[2]
        top    == Slice2(0, Idx(VR, -1), 0, VC)     \* edges.0 s![..-1, ..]
        bottom == Slice2(Idx(VR, 1), VR, 0, VC)     \* edges.0 s![1.., ..]
        left   == Slice2(0, HR, 0, Idx(HC, -1))     \* edges.1 s![.., ..-1]
        right  == Slice2(0, HR, Idx(HC, 1), HC)     \* edges.1 s![.., 1..]
    IN  ZipWrites(Whole(faces.dim),
                  [n \in DOMAIN top |-> -e[1][bottom[n]] + e[1][top[n]]
                                        - e[2][left[n]] + e[2][right[n]]])

(***************************************************************************)
(* What a call gives back: the content of its output container and, for a   *)
(* facade wrapper, the trait method it delegated to; or the panic of        *)
(* unimplemented!().                                                        *)
(***************************************************************************)
Ok(call, data) == [panic |-> FALSE, call |-> call, data |-> data]

Unimplemented == [panic |-> TRUE, call |-> NoCall, data |-> <<>>]

\* Faulty variant: the gradient takes the differences the other way round.
derivative_0_primal_reversed(self, edges, vertices) ==
    Ok(NoCall, ApplyWrites(edges.data,
        [n \in DOMAIN derivative_0_primal_writes(self, edges, vertices) |->
            <<derivative_0_primal_writes(self, edges, vertices)[n][1],
              -derivative_0_primal_writes(self, edges, vertices)[n][2]>>]))

derivative_0_primal(self, edges, vertices) ==
    Ok(NoCall, ApplyWrites(edges.data, derivative_0_primal_writes(self, edges, vertices)))

derivative_0_dual(self, edges, faces) ==
    Ok(NoCall, ApplyWrites(edges.data, derivative_0_dual_writes(self, edges, faces)))

\* Faulty variant: the divergence with the vertical pair of edges swapped.
derivative_1_primal_swapped(self, faces, edges) ==
    Ok(NoCall, [p \in DOMAIN faces.data |->
        LET e == split(edges)
        IN  e[1][<<p[1] + 1, p[2]>>] - e[1][p] - e[2][p] + e[2][<<p[1], p[2] + 1>>]])

derivative_1_primal(self, faces, edges) ==
    Ok(NoCall, ApplyWrites(faces.data, derivative_1_primal_writes(self, faces, edges)))

\* Faulty variant: a stub that returns normally, leaving a zeroed output.
derivative_1_dual_zero(self, faces, edges) ==
    Ok(NoCall, [p \in DOMAIN faces.data |-> 0])

derivative_1_dual(self, faces, edges) == Unimplemented

derivative_0_primal_matrix(self) == Unimplemented

derivative_0_dual_matrix(self) == Unimplemented

derivative_1_primal_matrix(self) == Unimplemented

derivative_1_dual_matrix(self) == Unimplemented

hodge_0_primal_matrix(self) == Unimplemented

hodge_1_primal_matrix(self) == Unimplemented

hodge_2_primal_matrix(self) == Unimplemented

hodge_0_dual_matrix(self) == Unimplemented

hodge_1_dual_matrix(self) == Unimplemented

hodge_2_dual_matrix(self) == Unimplemented

(***************************************************************************)
(* The Hodge wrappers of trait Manifold2d (manifold.rs).                    *)
(***************************************************************************)
hodge_0_primal(self, dual, primal) ==
    Ok(<<0, "apply">>, Hodge0_apply(self, dual, primal))

\* Faulty variant: the wrapper delegates to the forward map.
hodge_2_dual_forward(self, primal, dual) ==
    Ok(<<0, "apply">>, Hodge0_apply(self, primal, dual))

hodge_2_dual(self, primal, dual) ==
    Ok(<<0, "apply_inv">>, Hodge0_apply_inv(self, primal, dual))

hodge_1_primal(self, dual, primal) ==
    Ok(<<1, "apply">>, Hodge1_apply(self, dual, primal))

hodge_1_dual(self, primal, dual) ==
    Ok(<<1, "apply_inv">>, Hodge1_apply_inv(self, primal, dual))

hodge_2_primal(self, dual, primal) ==
    Ok(<<2, "apply">>, Hodge2_apply(self, dual, primal))

hodge_0_dual(self, primal, dual) ==
    Ok(<<2, "apply_inv">>, Hodge2_apply_inv(self, primal, dual))


(***************************************************************************)
(* The caller.  A run starts from one input form on one grid and makes the  *)
(* facade calls of one of the pipelines below, each call reading the result *)
(* of the previous one and writing a container the caller prepared          *)
(* (new_simplex_k, then possibly written over by the caller).               *)
(***************************************************************************)
MatrixAccessors ==
    {"derivative_0_primal_matrix", "derivative_0_dual_matrix",
     "derivative_1_primal_matrix", "derivative_1_dual_matrix",
     "hodge_0_primal_matrix", "hodge_1_primal_matrix", "hodge_2_primal_matrix",
     "hodge_0_dual_matrix", "hodge_1_dual_matrix", "hodge_2_dual_matrix"}

LaplacianPipeline ==
    <<"hodge_2_primal", "derivative_0_dual", "hodge_1_dual", "derivative_1_primal">>

DivergencePipeline == <<"hodge_1_dual", "derivative_1_primal">>

RoundTrips ==
    {<<"hodge_0_primal", "hodge_2_dual">>,
     <<"hodge_1_primal", "hodge_1_dual">>,
     <<"hodge_2_primal", "hodge_0_dual">>}

Programs ==
    RoundTrips
    \cup {LaplacianPipeline, DivergencePipeline}
    \cup {<<"derivative_0_dual">>,
          <<"derivative_0_primal", "derivative_1_primal">>,
          <<"derivative_0_primal", "derivative_1_dual">>,
          <<"derivative_1_dual">>}
    \cup {<<m>> : m \in MatrixAccessors}

IsPrefix(s, t) == Len(s) <= Len(t) /\ \A i \in 1..Len(s) : s[i] = t[i]

CanCall(op) ==
    /\ pc = "running"
    /\ \E P \in Programs : IsPrefix(Append(chain, op), P)

\* The degree of the output container each operator takes
\* (trait Manifold2d: &mut Self::SimplexK).
OutputDegree(op) ==
    CASE op \in {"hodge_0_primal", "hodge_2_dual", "derivative_1_dual"} -> 0
      [] op \in {"hodge_1_primal", "hodge_1_dual",
                 "derivative_0_primal", "derivative_0_dual"} -> 1
      [] op \in {"hodge_2_primal", "hodge_0_dual", "derivative_1_primal"} -> 2
      [] OTHER -> -1

Operators ==
    {"hodge_0_primal", "hodge_2_dual", "hodge_1_primal", "hodge_1_dual",
     "hodge_2_primal", "hodge_0_dual", "derivative_0_primal",
     "derivative_0_dual", "derivative_1_primal", "derivative_1_dual"}

Wanted(k) == \E op \in Operators : CanCall(op) /\ OutputDegree(op) = k

\* A container as new_simplex_k returns it.
Fresh(f) == \A k \in DOMAIN f.data : f.data[k] = 0

\* The position of an element in its container, counted row-major.
Position(f, k) == IF f.deg = 1 THEN k ELSE k[1] * f.dim[2] + k[2]

\* Prior content: every element different, none zero.
Prior(f, base) == [f EXCEPT !.data = [k \in DOMAIN f.data |-> base + Position(f, k)]]

\* A 2D array from its rows.
FromRows(rows) ==
    [p \in Dom2(<<Len(rows), Len(rows[1])>>) |-> rows[p[1] + 1][p[2] + 1]]

\* The forms with at most one non-zero element.
Impulses(z) ==
    {[z EXCEPT !.data = [z.data EXCEPT ![a] = u]] :
        a \in DOMAIN z.data, u \in Vals \cup {0}}

\* A form whose elements are all different and none zero.
Ramp(z) == [z EXCEPT !.data = [k \in DOMAIN z.data |-> 4 * (Position(z, k) + 1)]]

Forms(z) == Impulses(z) \cup {Ramp(z)}

Inputs(g) ==
    Forms(new_simplex_0(g)) \cup Forms(new_simplex_1(g)) \cup Forms(new_simplex_2(g))

\* tests::grid_2d_laplacian: the face field.
LaplacianFixture ==
    [new_simplex_2(<<3, 3>>) EXCEPT
        !.data = FromRows(<< <<0, -3, 0>>, <<0, 2, 6>>, <<1, 0, 0>> >>)]

LaplacianRef == FromRows(<< <<3, -11, -3>>, <<-3, 5, 16>>, <<2, -3, -6>> >>)

\* tests::grid_2d_divergence: velocities_y, velocities_x and div_ref, times ten.
Velocities_y ==
    FromRows(<< <<0,  0,  0, 0, 0>>,
                <<0, 18, 18, 0, 0>>,
                <<0, 20, 20, 0, 0>>,
                <<0,  8,  8, 0, 0>>,
                <<0,  0,  0, 0, 0>>,
                <<0,  0,  0, 0, 0>> >>)

Velocities_x ==
    FromRows(<< <<0,  7, 0, -7, 0, 0>>,
                <<0,  1, 0, -1, 0, 0>>,
                <<0, -7, 0,  7, 0, 0>>,
                <<0,  0, 0,  0, 0, 0>>,
                <<0,  0, 0,  0, 0, 0>> >>)

DivergenceRef ==
    FromRows(<< << 7, 11, 11,  7, 0>>,
                << 1,  1,  1,  1, 0>>,
                <<-7, -5, -5, -7, 0>>,
                << 0, -8, -8,  0, 0>>,
                << 0,  0,  0,  0, 0>> >>)

\* The test fills vel through split_mut.
DivergenceFixture ==
    LET z == new_simplex_1(<<5, 5>>)
        o == split_mut(z.dim)
    IN  [z EXCEPT !.data =
            ApplyWrites(z.data,
                ZipWrites(ViewTargets(o[1], VShape(z.dim)),
                          [n \in DOMAIN Whole(VShape(z.dim)) |->
                              Velocities_y[Whole(VShape(z.dim))[n]]])
                \o ZipWrites(ViewTargets(o[2], HShape(z.dim)),
                             [n \in DOMAIN Whole(HShape(z.dim)) |->
                                 Velocities_x[Whole(HShape(z.dim))[n]]]))]

Start(g, x) ==
    /\ dim = g
    /\ input = x
    /\ src = x
    /\ dst = NoForm
    /\ chain = <<>>
    /\ freshness = <<>>
    /\ old = NoForm
    /\ arg = NoForm
    /\ callee = NoCall
    /\ pc = "running"
    /\ parOp = "none"
    /\ parPending = {}
    /\ parOut = <<>>
    /\ grid = NoGrid
    /\ positions = <<>>
    /\ stale = FALSE

Init ==
    \/ \E g \in Grids : \E x \in Inputs(g) : Start(g, x)
    \/ Start(<<3, 3>>, LaplacianFixture)
    \/ Start(<<5, 5>>, DivergenceFixture)

parVars == <<parOp, parPending, parOut>>

(***************************************************************************)
(* The caller prepares an output container.                                 *)
(***************************************************************************)
Prepare(c) ==
    /\ dst' = c
    /\ UNCHANGED <<dim, input, src, chain, freshness, old, arg, callee, pc, parVars>>
    /\ UNCHANGED sphVars

new_simplex_0_call == pc = "running" /\ Wanted(0) /\ Prepare(new_simplex_0(dim))

new_simplex_1_call == pc = "running" /\ Wanted(1) /\ Prepare(new_simplex_1(dim))

new_simplex_2_call == pc = "running" /\ Wanted(2) /\ Prepare(new_simplex_2(dim))

\* The caller writes every element of the container it holds.
Fill ==
    /\ pc = "running"
    /\ dst # NoForm
    /\ Fresh(dst)
    /\ \E base \in PriorBases : Prepare(Prior(dst, base))

(***************************************************************************)
(* A call: the output container takes the result, or the call panics and    *)
(* leaves everything as it was.                                             *)
(***************************************************************************)
Call(op, r) ==
    /\ chain' = Append(chain, op)
    /\ freshness' = Append(freshness, Fresh(dst))
    /\ old' = dst
    /\ arg' = src
    /\ IF r.panic
         THEN /\ pc' = "unimplemented"
              /\ callee' = NoCall
              /\ UNCHANGED <<src, dst>>
         ELSE /\ pc' = pc
              /\ callee' = r.call
              /\ src' = [dst EXCEPT !.data = r.data]
              /\ dst' = NoForm
    /\ UNCHANGED <<dim, input, parVars, sphVars>>

Typed(op, k) == CanCall(op) /\ dst.deg = OutputDegree(op) /\ src.deg = k

hodge_0_primal_call ==
    Typed("hodge_0_primal", 0) /\ Call("hodge_0_primal", hodge_0_primal(dim, dst, src))

hodge_2_dual_call ==
    Typed("hodge_2_dual", 0) /\ Call("hodge_2_dual", hodge_2_dual(dim, dst, src))

hodge_1_primal_call ==
    Typed("hodge_1_primal", 1) /\ Call("hodge_1_primal", hodge_1_primal(dim, dst, src))

hodge_1_dual_call ==
    Typed("hodge_1_dual", 1) /\ Call("hodge_1_dual", hodge_1_dual(dim, dst, src))

hodge_2_primal_call ==
    Typed("hodge_2_primal", 2) /\ Call("hodge_2_primal", hodge_2_primal(dim, dst, src))

hodge_0_dual_call ==
    Typed("hodge_0_dual", 2) /\ Call("hodge_0_dual", hodge_0_dual(dim, dst, src))

derivative_0_primal_call ==
    Typed("derivative_0_primal", 0)
    /\ Call("derivative_0_primal", derivative_0_primal(dim, dst, src))

derivative_0_dual_call ==
    Typed("derivative_0_dual", 2)
    /\ Call("derivative_0_dual", derivative_0_dual(dim, dst, src))

derivative_1_primal_call ==
    Typed("derivative_1_primal", 1)
    /\ Call("derivative_1_primal", derivative_1_primal(dim, dst, src))

derivative_1_dual_call ==
    Typed("derivative_1_dual", 1)
    /\ Call("derivative_1_dual", derivative_1_dual(dim, dst, src))

MatrixAccessor(m, self) ==
    CASE m = "derivative_0_primal_matrix" -> derivative_0_primal_matrix(self)
      [] m = "derivative_0_dual_matrix"   -> derivative_0_dual_matrix(self)
      [] m = "derivative_1_primal_matrix" -> derivative_1_primal_matrix(self)
      [] m = "derivative_1_dual_matrix"   -> derivative_1_dual_matrix(self)
      [] m = "hodge_0_primal_matrix"      -> hodge_0_primal_matrix(self)
      [] m = "hodge_1_primal_matrix"      -> hodge_1_primal_matrix(self)
      [] m = "hodge_2_primal_matrix"      -> hodge_2_primal_matrix(self)
      [] m = "hodge_0_dual_matrix"        -> hodge_0_dual_matrix(self)
      [] m = "hodge_1_dual_matrix"        -> hodge_1_dual_matrix(self)
      [] m = "hodge_2_dual_matrix"        -> hodge_2_dual_matrix(self)

matrix_accessor_call ==
    \E m \in MatrixAccessors : CanCall(m) /\ Call(m, MatrixAccessor(m, dim))

Next ==
    \/ new_simplex_0_call
    \/ new_simplex_1_call
    \/ new_simplex_2_call
    \/ Fill
    \/ hodge_0_primal_call
    \/ hodge_2_dual_call
    \/ hodge_1_primal_call
    \/ hodge_1_dual_call
    \/ hodge_2_primal_call
    \/ hodge_0_dual_call
    \/ derivative_0_primal_call
    \/ derivative_0_dual_call
    \/ derivative_1_primal_call
    \/ derivative_1_dual_call
    \/ matrix_accessor_call

Spec == Init /\ [][Next]_vars


(***************************************************************************)
(* Properties.                                                              *)
(***************************************************************************)
Last == chain[Len(chain)]

\* The last call was op and it returned.
Called(op) == chain # <<>> /\ Last = op /\ pc = "running"

\* Every output container so far was passed as new_simplex_k returned it.
AllFresh == \A i \in DOMAIN freshness : freshness[i]

\* C1: Hodge round trip.  For each degree k, apply into a fresh container
\* followed by apply_inv into another fresh container gives back the primal
\* form the round trip started from, at every element.
C1_HodgeRoundTrip ==
    (chain \in RoundTrips /\ pc = "running" /\ AllFresh) => src.data = input.data

IsCorner(p, h, w) == p[1] \in {0, h} /\ p[2] \in {0, w}

IsBoundary(p, h, w) == p[1] \in {0, h} \/ p[2] \in {0, w}

\* C2: boundary weight law.  Hodge0::apply into a fresh container gives
\* primal/4 at the 4 corner vertices (0,0), (0,w), (h,0), (h,w), primal/2 at
\* the 2(h-1) + 2(w-1) other boundary vertices and primal at the (h-1)(w-1)
\* interior vertices.
C2_BoundaryWeightLaw ==
    (chain = <<"hodge_0_primal">> /\ pc = "running" /\ AllFresh) =>
        LET h == dim[1]
            w == dim[2]
            V == Dom2(<<h + 1, w + 1>>)
        IN  /\ DOMAIN src.data = V
            /\ Cardinality({p \in V : IsCorner(p, h, w)}) = 4
            /\ Cardinality({p \in V : IsBoundary(p, h, w) /\ ~IsCorner(p, h, w)})
                   = 2 * (h - 1) + 2 * (w - 1)
            /\ Cardinality({p \in V : ~IsBoundary(p, h, w)}) = (h - 1) * (w - 1)
            /\ \A p \in V :
                 src.data[p] = IF IsCorner(p, h, w) THEN input.data[p] \div 4
                               ELSE IF IsBoundary(p, h, w) THEN input.data[p] \div 2
                               ELSE input.data[p]

\* F[p] - F[n] if the face n lies inside the grid, else nothing.
FaceDiff(F, p, n) == IF n \in DOMAIN F THEN F[p] - F[n] ELSE 0

\* C3: Laplacian pipeline.  hodge_2_primal, derivative_0_dual, hodge_1_dual,
\* derivative_1_primal, every container fresh, give at each face the sum of
\* (F[face] - F[n]) over its 4-neighbours n inside the grid; on the 3x3
\* fixture of the test the result is the reference array of the test.
C3_LaplacianPipeline ==
    (chain = LaplacianPipeline /\ pc = "running" /\ AllFresh) =>
        /\ src.deg = 2
        /\ DOMAIN src.data = Dom2(dim)
        /\ \A p \in Dom2(dim) :
             src.data[p] = FaceDiff(input.data, p, <<p[1] - 1, p[2]>>)
                           + FaceDiff(input.data, p, <<p[1] + 1, p[2]>>)
                           + FaceDiff(input.data, p, <<p[1], p[2] - 1>>)
                           + FaceDiff(input.data, p, <<p[1], p[2] + 1>>)
        /\ (input = LaplacianFixture => src.data = LaplacianRef)

C3_Witness ==
    /\ chain = LaplacianPipeline
    /\ pc = "running"
    /\ AllFresh
    /\ input = LaplacianFixture
    /\ src.data[<<1, 2>>] = 16

\* C4: divergence pipeline.  hodge_1_dual into a fresh 1-form, then
\* derivative_1_primal into a fresh 2-form, give at every face (i,j)
\* (vy[i+1,j] - vy[i,j]) + (vx[i,j+1] - vx[i,j]), vy and vx the vertical and
\* horizontal blocks of the input; on the 5x5 fixture of the test (times ten)
\* the result is the reference divergence of the test.
C4_DivergencePipeline ==
    (chain = DivergencePipeline /\ pc = "running" /\ AllFresh) =>
        LET vy == split(input)[1]
            vx == split(input)[2]
        IN  /\ src.deg = 2
            /\ DOMAIN src.data = Dom2(dim)
            /\ \A p \in Dom2(dim) :
                 src.data[p] = (vy[<<p[1] + 1, p[2]>>] - vy[p])
                               + (vx[<<p[1], p[2] + 1>>] - vx[p])
            /\ (input = DivergenceFixture => src.data = DivergenceRef)

C4_Witness ==
    /\ chain = DivergencePipeline
    /\ pc = "running"
    /\ AllFresh
    /\ input = DivergenceFixture
    /\ src.data[<<0, 1>>] = 11

\* C5: frame of derivative_0_dual.  Whatever the output 1-form held, rows 0
\* and h of the vertical block and columns 0 and w of the horizontal block
\* are as before the call; vertical rows 1..h-1 hold faceAbove - faceBelow
\* and horizontal columns 1..w-1 hold faceLeft - faceRight.
C5_Derivative0DualFrame ==
    Called("derivative_0_dual") =>
        LET h   == dim[1]
            w   == dim[2]
            F   == arg.data
            new == split(src)
            was == split(old)
        IN  /\ src.deg = 1
            /\ DOMAIN src.data = DOMAIN old.data
            /\ \A p \in Dom2(<<h + 1, w>>) :
                 new[1][p] = IF p[1] \in {0, h} THEN was[1][p]
                             ELSE F[<<p[1] - 1, p[2]>>] - F[p]
            /\ \A p \in Dom2(<<h, w + 1>>) :
                 new[2][p] = IF p[2] \in {0, w} THEN was[2][p]
                             ELSE F[<<p[1], p[2] - 1>>] - F[p]

C5_Witness ==
    /\ Called("derivative_0_dual")
    /\ ~Fresh(old)
    /\ dim[1] >= 2
    /\ dim[2] >= 2
    /\ split(src)[1][<<1, 0>>] # split(old)[1][<<1, 0>>]
    /\ split(src)[1][<<0, 0>>] = split(old)[1][<<0, 0>>]

\* C6: primal 0->1 derivative.  Whatever the output 1-form held,
\* derivative_0_primal writes every edge: vertical-block entry (i,j) is
\* V[i,j+1] - V[i,j], horizontal-block entry (i,j) is V[i+1,j] - V[i,j].
C6_Derivative0Primal ==
    Called("derivative_0_primal") =>
        LET h   == dim[1]
            w   == dim[2]
            V   == arg.data
            new == split(src)
        IN  /\ src.deg = 1
            /\ DOMAIN src.data = DOMAIN old.data
            /\ DOMAIN new[1] = Dom2(<<h + 1, w>>)
            /\ DOMAIN new[2] = Dom2(<<h, w + 1>>)
            /\ \A p \in Dom2(<<h + 1, w>>) :
                 new[1][p] = V[<<p[1], p[2] + 1>>] - V[p]
            /\ \A p \in Dom2(<<h, w + 1>>) :
                 new[2][p] = V[<<p[1] + 1, p[2]>>] - V[p]

C6_Witness ==
    /\ Called("derivative_0_primal")
    /\ ~Fresh(old)
    /\ arg = Ramp(new_simplex_0(dim))
    /\ dim[1] # dim[2]


\* The output of the degree-k Hodge's method, computed on what the last call
\* was given.
HodgeResult(k, method) ==
    CASE k = 0 /\ method = "apply"     -> Hodge0_apply(dim, old, arg)
      [] k = 0 /\ method = "apply_inv" -> Hodge0_apply_inv(dim, old, arg)
      [] k = 1 /\ method = "apply"     -> Hodge1_apply(dim, old, arg)
      [] k = 1 /\ method = "apply_inv" -> Hodge1_apply_inv(dim, old, arg)
      [] k = 2 /\ method = "apply"     -> Hodge2_apply(dim, old, arg)
      [] k = 2 /\ method = "apply_inv" -> Hodge2_apply_inv(dim, old, arg)

\* The last call, wrapper op, delegated to the degree-k Hodge's method on
\* containers of degree k, and did nothing else.
Delegated(op, k, method) ==
    Called(op) =>
        /\ callee = <<k, method>>
        /\ old.deg = k
        /\ arg.deg = k
        /\ src.deg = k
        /\ src.data = HodgeResult(k, method)

\* C7 as stated: hodge_k_primal calls the k-form Hodge's apply and
\* hodge_k_dual calls the k-form Hodge's apply_inv, for k = 0, 1, 2.
C7_FacadeDelegationAsStated ==
    /\ Delegated("hodge_0_primal", 0, "apply")
    /\ Delegated("hodge_1_primal", 1, "apply")
    /\ Delegated("hodge_2_primal", 2, "apply")
    /\ Delegated("hodge_0_dual", 0, "apply_inv")
    /\ Delegated("hodge_1_dual", 1, "apply_inv")
    /\ Delegated("hodge_2_dual", 2, "apply_inv")

\* C7: facade delegation.  hodge_k_primal calls the k-form Hodge's apply;
\* hodge_k_dual calls the (2-k)-form Hodge's apply_inv (a dual k-form lives
\* on the primal (2-k)-simplices): hodge_2_dual calls Hodge0::apply_inv,
\* hodge_1_dual calls Hodge1::apply_inv, hodge_0_dual calls Hodge2::apply_inv.
C7_FacadeDelegation ==
    /\ Delegated("hodge_0_primal", 0, "apply")
    /\ Delegated("hodge_1_primal", 1, "apply")
    /\ Delegated("hodge_2_primal", 2, "apply")
    /\ Delegated("hodge_0_dual", 2, "apply_inv")
    /\ Delegated("hodge_1_dual", 1, "apply_inv")
    /\ Delegated("hodge_2_dual", 0, "apply_inv")

C7_Witness ==
    /\ Called("hodge_2_dual")
    /\ callee = <<0, "apply_inv">>
    /\ src.deg = 0
    /\ src.data # arg.data

Image(f) == {f[p] : p \in DOMAIN f}

Injective(f) == \A p, q \in DOMAIN f : f[p] = f[q] => p = q

\* A 1-form container of the grid: the buffer and the dim new_simplex_1 gives.
IsSimplex1(f) ==
    /\ f.dim = dim
    /\ DOMAIN f.data = 0..(dim[2] * (dim[1] + 1) + dim[1] * (dim[2] + 1) - 1)

\* C8: 1-form layout.  The buffer of new_simplex_1 has w(h+1) + h(w+1)
\* elements (num_elem_1); split / split_mut map the vertical view, of shape
\* (h+1, w), onto offsets [0, w(h+1)) and the horizontal view, of shape
\* (h, w+1), onto [w(h+1), w(h+1) + h(w+1)); the views are disjoint, inside
\* the buffer, and together cover each element exactly once.
C8_Simplex1Layout ==
    LET h == dim[1]
        w == dim[2]
        b == new_simplex_1(dim)
        o == split_mut(b.dim)
        n == w * (h + 1) + h * (w + 1)
    IN  /\ DOMAIN b.data = 0..(n - 1)
        /\ num_elem_1(dim) = n
        /\ DOMAIN o[1] = Dom2(<<h + 1, w>>)
        /\ DOMAIN o[2] = Dom2(<<h, w + 1>>)
        /\ DOMAIN split(b)[1] = DOMAIN o[1]
        /\ DOMAIN split(b)[2] = DOMAIN o[2]
        /\ Image(o[1]) = 0..(w * (h + 1) - 1)
        /\ Image(o[2]) = (w * (h + 1))..(n - 1)
        /\ Injective(o[1])
        /\ Injective(o[2])
        /\ Image(o[1]) \cap Image(o[2]) = {}
        /\ Image(o[1]) \cup Image(o[2]) = DOMAIN b.data
        /\ (src.deg = 1 => IsSimplex1(src))
        /\ (dst.deg = 1 => IsSimplex1(dst))

C8_Witness ==
    /\ dst = new_simplex_1(dim)
    /\ dim[1] # dim[2]
    /\ src.deg = 1
    /\ chain # <<>>

Unimplemented_ops == MatrixAccessors \cup {"derivative_1_dual"}

\* C9: unimplemented paths.  A call of derivative_1_dual or of a matrix
\* accessor ends in the not-implemented failure and returns nothing; the
\* output 0-form of derivative_1_dual, and every other container, is as it
\* was before the call.
C9_UnimplementedRaise ==
    (chain # <<>> /\ Last \in Unimplemented_ops) =>
        /\ pc = "unimplemented"
        /\ callee = NoCall
        /\ dst = old
        /\ src = arg

C9_Witness ==
    /\ chain # <<>>
    /\ Last = "derivative_1_dual"
    /\ pc = "unimplemented"
    /\ dst.deg = 0
    /\ ~Fresh(dst)
    /\ dst = old


(***************************************************************************)
(* Element-wise execution of one call.  The source runs the zips of the     *)
(* Hodge operators in order and the par_azip! of the derivatives on a       *)
(* thread pool; here the element writes of one call are executed one at a   *)
(* time in any order, then joined.                                          *)
(***************************************************************************)
ParOps ==
    {"Hodge0::apply", "Hodge0::apply_inv", "Hodge1::apply", "Hodge1::apply_inv",
     "Hodge2::apply", "Hodge2::apply_inv", "derivative_0_primal",
     "derivative_0_dual", "derivative_1_primal"}

\* <<degree of the output, degree of the input>> of each operator.
ParSignature(op) ==
    CASE op \in {"Hodge0::apply", "Hodge0::apply_inv"} -> <<0, 0>>
      [] op \in {"Hodge1::apply", "Hodge1::apply_inv"} -> <<1, 1>>
      [] op \in {"Hodge2::apply", "Hodge2::apply_inv"} -> <<2, 2>>
      [] op = "derivative_0_primal" -> <<1, 0>>
      [] op = "derivative_0_dual"   -> <<1, 2>>
      [] op = "derivative_1_primal" -> <<2, 1>>

\* The element writes of a call, in source order.
WritesOf(op, self, out, in) ==
    CASE op = "Hodge0::apply"       -> Hodge0_apply_writes(self, out, in)
      [] op = "Hodge0::apply_inv"   -> Hodge0_apply_inv_writes(self, out, in)
      [] op = "Hodge1::apply"       -> Hodge1_apply_writes(self, out, in)
      [] op = "Hodge1::apply_inv"   -> Hodge1_apply_inv_writes(self, out, in)
      [] op = "Hodge2::apply"       -> Hodge2_apply_writes(self, out, in)
      [] op = "Hodge2::apply_inv"   -> Hodge2_apply_inv_writes(self, out, in)
      [] op = "derivative_0_primal" -> derivative_0_primal_writes(self, out, in)
      [] op = "derivative_0_dual"   -> derivative_0_dual_writes(self, out, in)
      [] op = "derivative_1_primal" -> derivative_1_primal_writes(self, out, in)

NewSimplex(k, self) ==
    CASE k = 0 -> new_simplex_0(self)
      [] k = 1 -> new_simplex_1(self)
      [] k = 2 -> new_simplex_2(self)

\* The grids of the element-wise executions.
ParGrids == {<<1, 1>>, <<1, 2>>, <<2, 1>>, <<2, 2>>}

InitPar ==
    \E g \in ParGrids, op \in ParOps :
        \E in \in {Ramp(NewSimplex(ParSignature(op)[2], g))} :
            \E out \in {NewSimplex(ParSignature(op)[1], g)}
                       \cup {Prior(NewSimplex(ParSignature(op)[1], g), b) : b \in PriorBases} :
                /\ dim = g
                /\ input = in
                /\ src = in
                /\ dst = out
                /\ chain = <<>>
                /\ freshness = <<>>
                /\ old = out
                /\ arg = in
                /\ callee = NoCall
                /\ pc = "running"
                /\ parOp = op
                /\ parPending = DOMAIN WritesOf(op, g, out, in)
                /\ parOut = out.data
                /\ grid = NoGrid
                /\ positions = <<>>
                /\ stale = FALSE

\* One element write of the call, any of those left.
ParWrite ==
    /\ pc = "running"
    /\ \E n \in parPending :
         LET w == WritesOf(parOp, dim, old, arg)[n]
         IN  /\ parOut' = [parOut EXCEPT ![w[1]] = w[2]]
             /\ parPending' = parPending \ {n}
    /\ UNCHANGED <<dim, input, src, dst, chain, freshness, old, arg, callee, pc, parOp>>
    /\ UNCHANGED sphVars

\* All writes done: the call returns and the output container holds the result.
ParJoin ==
    /\ pc = "running"
    /\ parPending = {}
    /\ pc' = "joined"
    /\ src' = [dst EXCEPT !.data = parOut]
    /\ dst' = NoForm
    /\ UNCHANGED <<dim, input, chain, freshness, old, arg, callee, parOp, parPending, parOut>>
    /\ UNCHANGED sphVars

NextPar == ParWrite \/ ParJoin

SpecPar == InitPar /\ [][NextPar]_vars

\* C10: order independence.  Whatever the order in which the element writes
\* of a Hodge or derivative call are executed, the output after the call is
\* the output of the call executed in source order.
C10_OrderIndependence ==
    pc = "joined" => src.data = ApplyWrites(old.data, WritesOf(parOp, dim, old, arg))

\* C12: exactness (d o d = 0).  derivative_0_primal applied to a vertex field
\* and derivative_1_primal applied to the resulting 1-form give a 2-form that
\* is zero at every face, whatever the two output containers held before.
C12_Exactness ==
    (chain = <<"derivative_0_primal", "derivative_1_primal">> /\ pc = "running")
        => \A p \in Dom2(dim) : src.data[p] = 0

\* The case of C12: both outputs were written over used containers, and the
\* intermediate 1-form (the argument of the second call) is not zero.
C12_Witness ==
    /\ chain = <<"derivative_0_primal", "derivative_1_primal">>
    /\ pc = "running"
    /\ ~freshness[1] /\ ~freshness[2]
    /\ \E n \in DOMAIN arg.data : arg.data[n] # 0
    /\ \E p \in Dom2(dim) : old.data[p] # 0


(***************************************************************************)
(* The spatial-hash grid of the particle code (sph/grid.rs, BoundedGrid).   *)
(*                                                                          *)
(* Positions and the cell size are integers of the model, so that the       *)
(* floor of the quotient of get_cell is the integer quotient.  Particle     *)
(* indices and cell keys count from 0 as in the source; the sequence of    *)
(* positions counts from 1, so positions[particle] of the source is         *)
(* positions[particle + 1] here.                                            *)
(***************************************************************************)
\* Longest list of positions handed to construct_ranges.
MaxParticles == 3

\* The grids: num_cells along x and y.
SphGrids == {<<1, 1>>, <<2, 1>>, <<1, 2>>, <<2, 2>>}

CellSizes == {1, 2}

\* usize::MAX, the key of a position outside the grid.  The integers of the
\* model are 32 bits wide, so the largest of them stands for it; only its
\* being no smaller than every cell count is used.
usize_MAX == (2^30 - 1) + 2^30

Some(v) == [some |-> TRUE, val |-> v]

None == [some |-> FALSE, val |-> <<>>]

BoundedGrid_new(nc, cs) ==
    [num_cells   |-> nc,
     cell_size   |-> cs,
     cell_ranges |-> [c \in 0..(nc[1] * nc[2] - 1) |-> <<0, 0>>]]

get_cell(self, position) ==
    LET x == position[1] \div self.cell_size
        y == position[2] \div self.cell_size
    IN  IF (0 <= x /\ x < self.num_cells[1]) /\ (0 <= y /\ y < self.num_cells[2])
        THEN Some(<<x, y>>)
        ELSE None

get_key(self, position) ==
    IF get_cell(self, position).some
    THEN get_cell(self, position).val[1]
         + get_cell(self, position).val[2] * self.num_cells[1]
    ELSE usize_MAX

\* cell_ranges.len()
cell_ranges_len(self) == Cardinality(DOMAIN self.cell_ranges)

\* Faulty variant: the ranges of the previous call are left in place.
construct_ranges_reset_skipped(self) == self.cell_ranges

\* for cell in &mut self.cell_ranges { *cell = (0, 0); }
construct_ranges_reset(self) == [c \in DOMAIN self.cell_ranges |-> <<0, 0>>]

\* The loop over the particles 1..positions.len() and the assignment after
\* it; ranges and prev are the locals on entry to the iteration of particle.
RECURSIVE construct_ranges_loop(_, _, _, _, _)
construct_ranges_loop(self, ps, ranges, prev, particle) ==
    IF particle >= Len(ps)
    THEN [ranges EXCEPT ![prev][2] = Len(ps)]
    ELSE LET index == get_key(self, ps[particle + 1])
         IN  IF index >= cell_ranges_len(self)
             THEN [ranges EXCEPT ![prev][2] = particle]
             ELSE construct_ranges_loop(self, ps,
                      IF prev # index
                      THEN [[ranges EXCEPT ![index][1] = particle]
                                    EXCEPT ![prev][2] = particle]
                      ELSE ranges,
                      index, particle + 1)

\* The ranges after the call; panic: positions[0] of an empty slice, after the
\* reset has been done.
construct_ranges(self, ps) ==
    IF Len(ps) = 0
    THEN [panic |-> TRUE, cell_ranges |-> construct_ranges_reset(self)]
    ELSE LET prev == get_key(self, ps[1])
         IN  IF prev >= cell_ranges_len(self)
             THEN [panic |-> FALSE, cell_ranges |-> construct_ranges_reset(self)]
             ELSE [panic |-> FALSE,
                   cell_ranges |->
                       construct_ranges_loop(self, ps,
                           [construct_ranges_reset(self) EXCEPT ![prev][1] = 0],
                           prev, 1)]

get_range_unchecked(self, cell) ==
    self.cell_ranges[cell[1] + cell[2] * self.num_cells[1]]

\* cell is a pair of usize: its components are never negative.
get_range(self, cell) ==
    IF cell[1] < self.num_cells[1] /\ cell[2] < self.num_cells[2]
    THEN Some(get_range_unchecked(self, cell))
    ELSE None

(***************************************************************************)
(* The caller of the BoundedGrid: it builds the grid, and then again and    *)
(* again sorts its particles by get_key and has the ranges constructed.     *)
(***************************************************************************)
\* The positions of the particles: one inside every cell (at the cell's last
\* x and first y), one left of the grid and one above it.
Points(self) ==
    {<<cx * self.cell_size + self.cell_size - 1, cy * self.cell_size>> :
        cx \in 0..(self.num_cells[1] - 1), cy \in 0..(self.num_cells[2] - 1)}
    \cup {<<-1, 0>>, <<0, self.num_cells[2] * self.cell_size>>}

\* The lists of at most n positions in ascending order of get_key.
RECURSIVE SortedLists(_, _)
SortedLists(self, n) ==
    IF n = 0
    THEN {<<>>}
    ELSE LET shorter == SortedLists(self, n - 1)
             ext == {q \in shorter \X Points(self) :
                        /\ Len(q[1]) = n - 1
                        /\ n > 1 => get_key(self, q[1][n - 1]) <= get_key(self, q[2])}
         IN  shorter \cup {Append(q[1], q[2]) : q \in ext}

decVars == <<dim, input, src, dst, chain, freshness, old, arg, callee, parVars>>

InitGrid ==
    /\ \E nc \in SphGrids, cs \in CellSizes : grid = BoundedGrid_new(nc, cs)
    /\ positions = <<>>
    /\ stale = FALSE
    /\ pc = "new"
    /\ dim = <<0, 0>>
    /\ input = NoForm
    /\ src = NoForm
    /\ dst = NoForm
    /\ chain = <<>>
    /\ freshness = <<>>
    /\ old = NoForm
    /\ arg = NoForm
    /\ callee = NoCall
    /\ parOp = "none"
    /\ parPending = {}
    /\ parOut = <<>>

construct_ranges_call ==
    /\ pc \in {"new", "returned"}
    /\ \E ps \in SortedLists(grid, MaxParticles) :
         /\ grid' = [grid EXCEPT !.cell_ranges = construct_ranges(grid, ps).cell_ranges]
         /\ positions' = ps
         /\ stale' = \E c \in DOMAIN grid.cell_ranges :
                        /\ grid.cell_ranges[c][1] < grid.cell_ranges[c][2]
                        /\ \A n \in DOMAIN ps : get_key(grid, ps[n]) # c
         /\ pc' = IF construct_ranges(grid, ps).panic THEN "panicked" ELSE "returned"
    /\ UNCHANGED decVars

NextGrid == construct_ranges_call

SpecGrid == InitGrid /\ [][NextGrid]_vars

\* The indices of the positions whose key is that of the cell.
ParticlesOf(cell) ==
    {particle \in 0..(Len(positions) - 1) :
        get_key(grid, positions[particle + 1]) = cell[1] + cell[2] * grid.num_cells[1]}

\* C11: after construct_ranges has returned for a non-empty list of positions
\* in ascending order of get_key, the range [start, end) that get_range gives
\* for a cell of the grid holds exactly the indices of the positions whose key
\* is that cell, with start <= end; so a cell without particles has an empty
\* range, whatever ranges were stored before the call.
C11_ConstructRanges ==
    pc = "returned" =>
        \A cx \in 0..(grid.num_cells[1] - 1), cy \in 0..(grid.num_cells[2] - 1) :
            LET r == get_range(grid, <<cx, cy>>)
            IN  /\ r.some
                /\ r.val[1] <= r.val[2]
                /\ r.val[1]..(r.val[2] - 1) = ParticlesOf(<<cx, cy>>)

\* The case of C11: a cell that had a non-empty range before the call holds no
\* particle now, another cell holds two, and a position outside the grid ends
\* the list.
C11_Witness ==
    /\ pc = "returned"
    /\ Len(positions) = MaxParticles
    /\ get_key(grid, positions[Len(positions)]) = usize_MAX
    /\ stale
    /\ \E c \in DOMAIN grid.cell_ranges :
         grid.cell_ranges[c][2] - grid.cell_ranges[c][1] = 2

=============================================================================
